---- MODULE Spec2Model ----
(***************************************************************************)
(* Model of the task store (src/taskmanager.py, class TaskManager) and of  *)
(* the conversational dispatcher (src/main.py, class AITaskAgent and       *)
(* main).                                                                  *)
(*                                                                         *)
(* Texts are modelled by their content: a priority text is a TLA+ string   *)
(* whose code points are given by Codes, so that str.lower() and the       *)
(* string comparison used by sorted() are computed on code points.  The    *)
(* texts returned by the store are records that keep the message template  *)
(* (kind) and the values interpolated into it.  The JSON document on disk  *)
(* is a sequence of tuples (one JSON object per task, the boolean written  *)
(* as the JSON literal true / false).                                      *)
(***************************************************************************)
EXTENDS Integers, Sequences, FiniteSets, TLC

\* ---------------------------------------------------------------- bounds
MaxTasks == 3
MaxStatsTasks == 4
MaxAgentTasks == 2
MaxAddTasks == 2

\* ---------------------------------------------------------------- inputs
Titles == {"Buy milk", "Write report"}
PriorityInputs == {"high", "low", "medium", "HIGH"}
Stamps == {"2026-11-01T09:00:00"}
TaskIds == (1 .. MaxTasks) \cup {999}
StatsTaskIds == 1 .. MaxStatsTasks
Inputs == {"quit", "Exit", " BYE ", "", "  ", "add milk"}
AddPriorities == PriorityInputs \cup {"Urgent"}

VARIABLES
    tasks,      \* TaskManager.tasks: the in-memory list of task dicts
    file,       \* the content of tasks_file on disk
    phase,      \* "new": no instance yet, "ready": constructed, "raised": __init__ raised
    last,       \* the store operation that ran last, with its arguments
    result      \* the text that operation returned

storeVars == <<tasks, file, phase, last, result>>

VARIABLES
    pc,         \* position of main(): "none" when the store is used without the dispatcher
    line,       \* what input() returned last
    user_input, \* the utterance main() read last, stripped
    response,   \* what the first round trip of chat() returned for that utterance
    events,     \* what chat() did for that utterance, in order
    fault,      \* where an exception was raised inside chat(), "none" if nowhere
    reply       \* the text chat() returned last

agentVars == <<pc, line, user_input, response, events, fault, reply>>

\* ----------------------------------------------------------------- texts
\* The texts whose content the program looks at (priorities, typed input),
\* and their code points.
Texts ==
    {"high", "low", "medium", "HIGH", "Urgent", "urgent",
     "quit", "exit", "bye", "Exit", "BYE", " BYE ", "", "  ", "add milk"}

Codes(s) ==
    CASE s = "high"     -> <<104, 105, 103, 104>>
      [] s = "low"      -> <<108, 111, 119>>
      [] s = "medium"   -> <<109, 101, 100, 105, 117, 109>>
      [] s = "HIGH"     -> <<72, 73, 71, 72>>
      [] s = "Urgent"   -> <<85, 114, 103, 101, 110, 116>>
      [] s = "urgent"   -> <<117, 114, 103, 101, 110, 116>>
      [] s = "quit"     -> <<113, 117, 105, 116>>
      [] s = "exit"     -> <<101, 120, 105, 116>>
      [] s = "bye"      -> <<98, 121, 101>>
      [] s = "Exit"     -> <<69, 120, 105, 116>>
      [] s = "BYE"      -> <<66, 89, 69>>
      [] s = " BYE "    -> <<32, 66, 89, 69, 32>>
      [] s = ""         -> <<>>
      [] s = "  "       -> <<32, 32>>
      [] s = "add milk" -> <<97, 100, 100, 32, 109, 105, 108, 107>>

TextOf(codes) == CHOOSE t \in Texts : Codes(t) = codes

\* str.lower() on one code point (ASCII letters).
LowerCode(c) == IF c >= 65 /\ c <= 90 THEN c + 32 ELSE c

\* str.lower(): the text whose code points are the lowered code points.
Lower(s) ==
    LET low == [i \in DOMAIN Codes(s) |-> LowerCode(Codes(s)[i])]
    IN  TextOf(low)

\* str.strip(): leading and trailing white space removed
IsSpace(c) == c \in {9, 10, 13, 32}

RECURSIVE LStrip(_)
LStrip(c) == IF c # <<>> /\ IsSpace(Head(c)) THEN LStrip(Tail(c)) ELSE c

RECURSIVE RStrip(_)
RStrip(c) == IF c # <<>> /\ IsSpace(c[Len(c)]) THEN RStrip(SubSeq(c, 1, Len(c) - 1)) ELSE c

Strip(s) == TextOf(RStrip(LStrip(Codes(s))))

\* Python's str "<": lexicographic on code points, a proper prefix is smaller.
RECURSIVE SeqLess(_, _)
SeqLess(a, b) ==
    IF b = <<>> THEN FALSE
    ELSE IF a = <<>> THEN TRUE
    ELSE IF Head(a) # Head(b) THEN Head(a) < Head(b)
    ELSE SeqLess(Tail(a), Tail(b))

StrLess(s, t) == SeqLess(Codes(s), Codes(t))

\* ------------------------------------------------------------ durable file
Absent == [kind |-> "absent", doc |-> <<>>]
Unreadable == [kind |-> "unreadable", doc |-> <<>>]

JsonBool(b) == IF b THEN "true" ELSE "false"

\* json.dump of one task dict: a JSON object, here the tuple of its members.
DumpTask(t) == <<t.id, t.title, t.priority, JsonBool(t.completed), t.created_at>>

\* variant: the boolean is compared with Python's literal, not JSON's
LoadTask_PyBool(o) ==
    [id |-> o[1], title |-> o[2], priority |-> o[3],
     completed |-> (o[4] = "True"), created_at |-> o[5]]

\* json.load of one JSON object.
LoadTask(o) ==
    [id |-> o[1], title |-> o[2], priority |-> o[3],
     completed |-> (o[4] = "true"), created_at |-> o[5]]

\* variant: a missing file is not caught
_load_tasks_NoCatch(f) ==
    CASE f.kind = "json" -> [raised |-> FALSE, tasks |-> [i \in DOMAIN f.doc |-> LoadTask(f.doc[i])]]
      [] OTHER           -> [raised |-> TRUE, tasks |-> <<>>]

\* _load_tasks: the list read from the file; FileNotFoundError gives [],
\* any other failure of open() or json.load() propagates.
_load_tasks(f) ==
    CASE f.kind = "json"   -> [raised |-> FALSE, tasks |-> [i \in DOMAIN f.doc |-> LoadTask(f.doc[i])]]
      [] f.kind = "absent" -> [raised |-> FALSE, tasks |-> <<>>]
      [] OTHER             -> [raised |-> TRUE, tasks |-> <<>>]

\* _save_tasks: the file is rewritten with the whole list.
_save_tasks(ts) == [kind |-> "json", doc |-> [i \in DOMAIN ts |-> DumpTask(ts[i])]]

\* ------------------------------------------------ return texts, add_task
NoText ==
    [kind |-> "none", id |-> 0, title |-> "", priority |-> "", lines |-> <<>>,
     total |-> 0, completed |-> 0, rate |-> 0, message |-> ""]

\* f"Task '{title}' added with {priority} priority"
AddedText(title, priority) ==
    [NoText EXCEPT !.kind = "added", !.title = title, !.priority = priority]

\* f"Task '{task['title']}' marked as completed!"
CompletedText(title) == [NoText EXCEPT !.kind = "completed", !.title = title]

\* f"Task with ID {task_id} not found!"
NotFoundText(task_id) == [NoText EXCEPT !.kind = "not_found", !.id = task_id]

\* "No tasks found!"
NoTasksFoundText == [NoText EXCEPT !.kind = "no_tasks_found"]

\* "No tasks yet! Time to get started!"
NoTasksYetText == [NoText EXCEPT !.kind = "no_tasks_yet"]

\* variant: the id is the count before insertion
add_task_IdFromZero(ts, title, priority, now) ==
    LET task == [id |-> Len(ts), title |-> title, priority |-> Lower(priority),
                 completed |-> FALSE, created_at |-> now]
        new == Append(ts, task)
    IN  [tasks |-> new, file |-> _save_tasks(new), ret |-> AddedText(title, priority)]

\* variant: the priority is stored as supplied
add_task_NoLower(ts, title, priority, now) ==
    LET task == [id |-> Len(ts) + 1, title |-> title, priority |-> priority,
                 completed |-> FALSE, created_at |-> now]
        new == Append(ts, task)
    IN  [tasks |-> new, file |-> _save_tasks(new), ret |-> AddedText(title, priority)]

\* add_task: append a task whose id is the new length, then save
add_task(ts, title, priority, now) ==
    LET task == [id |-> Len(ts) + 1, title |-> title, priority |-> Lower(priority),
                 completed |-> FALSE, created_at |-> now]
        new == Append(ts, task)
    IN  [tasks |-> new, file |-> _save_tasks(new), ret |-> AddedText(title, priority)]

\* ------------------------------------------------------------ list_tasks
\* variant: priorities compared by severity (high, medium, low)
Severity(p) == CASE p = "high" -> 1 [] p = "medium" -> 2 [] OTHER -> 3

KeyLess_Severity(a, b) ==
    \/ ~a.completed /\ b.completed
    \/ a.completed = b.completed /\ Severity(a.priority) < Severity(b.priority)

\* the sort key (x["completed"], x["priority"]) compared as Python tuples
KeyLess(a, b) ==
    \/ ~a.completed /\ b.completed
    \/ a.completed = b.completed /\ StrLess(a.priority, b.priority)

\* x goes before the first element that is strictly greater
Insert(s, x) ==
    LET later == {i \in DOMAIN s : KeyLess(x, s[i])}
        p == IF later = {} THEN Len(s) + 1 ELSE CHOOSE i \in later : \A j \in later : i <= j
    IN  SubSeq(s, 1, p - 1) \o <<x>> \o SubSeq(s, p, Len(s))

\* sorted(): stable
RECURSIVE sorted(_)
sorted(s) ==
    IF s = <<>> THEN <<>>
    ELSE Insert(sorted(SubSeq(s, 1, Len(s) - 1)), s[Len(s)])

StatusGlyph(t) == IF t.completed THEN "done" ELSE "pending"

PriorityGlyph(t) ==
    LET p == Lower(t.priority)
    IN  CASE p = "high"   -> "red"
          [] p = "medium" -> "yellow"
          [] p = "low"    -> "green"
          [] OTHER        -> "white"

\* f"{status} {priority_emoji} Task {task['id']}: {task['title']}"
TaskLine(t) ==
    [status |-> StatusGlyph(t), glyph |-> PriorityGlyph(t), id |-> t.id, title |-> t.title]

list_tasks(ts) ==
    IF ts = <<>> THEN NoTasksFoundText
    ELSE LET st == sorted(ts)
         IN  [NoText EXCEPT !.kind = "list", !.lines = [i \in DOMAIN st |-> TaskLine(st[i])]]

\* ---------------------------------------------------------- complete_task
\* index of the first task whose id equals task_id, 0 when there is none
FirstWithId(ts, task_id) ==
    LET hits == {i \in DOMAIN ts : ts[i].id = task_id}
    IN  IF hits = {} THEN 0 ELSE CHOOSE i \in hits : \A j \in hits : i <= j

\* variant: the flag is set but the file is not rewritten
complete_task_NoSave(ts, f, task_id) ==
    LET i == FirstWithId(ts, task_id)
    IN  IF i = 0
        THEN [tasks |-> ts, file |-> f, ret |-> NotFoundText(task_id)]
        ELSE [tasks |-> [ts EXCEPT ![i].completed = TRUE], file |-> f,
              ret |-> CompletedText(ts[i].title)]

\* variant: the flag is toggled
complete_task_Toggle(ts, f, task_id) ==
    LET i == FirstWithId(ts, task_id)
    IN  IF i = 0
        THEN [tasks |-> ts, file |-> f, ret |-> NotFoundText(task_id)]
        ELSE LET new == [ts EXCEPT ![i].completed = ~ts[i].completed]
             IN  [tasks |-> new, file |-> _save_tasks(new), ret |-> CompletedText(ts[i].title)]

\* variant: the file is rewritten whether or not the id was found
complete_task_SaveAlways(ts, f, task_id) ==
    LET i == FirstWithId(ts, task_id)
    IN  IF i = 0
        THEN [tasks |-> ts, file |-> _save_tasks(ts), ret |-> NotFoundText(task_id)]
        ELSE LET new == [ts EXCEPT ![i].completed = TRUE]
             IN  [tasks |-> new, file |-> _save_tasks(new), ret |-> CompletedText(ts[i].title)]

complete_task(ts, f, task_id) ==
    LET i == FirstWithId(ts, task_id)
    IN  IF i = 0
        THEN [tasks |-> ts, file |-> f, ret |-> NotFoundText(task_id)]
        ELSE LET new == [ts EXCEPT ![i].completed = TRUE]
             IN  [tasks |-> new, file |-> _save_tasks(new), ret |-> CompletedText(ts[i].title)]

\* -------------------------------------------------------------- get_stats
\* completion_rate = (completed_tasks / total_tasks) * 100 is kept as the
\* pair (completed_tasks, total_tasks); rate >= k is 100 * completed >= k * total.
RateIs100(c, n) == 100 * c = 100 * n
RateAtLeast(c, n, k) == 100 * c >= k * n

\* f"{completion_rate:.1f}": tenths of a percent, rounded half to even
RateTenths(c, n) ==
    LET q == (1000 * c) \div n
        r == (1000 * c) % n
    IN  IF 2 * r > n THEN q + 1
        ELSE IF 2 * r = n THEN q + (q % 2)
        ELSE q

\* variant: the third rung excludes exactly 50
Encouragement_Above50(c, n) ==
    IF RateIs100(c, n) THEN "A: Perfect score!"
    ELSE IF RateAtLeast(c, n, 75) THEN "B: Great progress!"
    ELSE IF 100 * c > 50 * n THEN "C: Halfway there!"
    ELSE "D: Every journey starts with a single step!"

Encouragement(c, n) ==
    IF RateIs100(c, n) THEN "A: Perfect score!"
    ELSE IF RateAtLeast(c, n, 75) THEN "B: Great progress!"
    ELSE IF RateAtLeast(c, n, 50) THEN "C: Halfway there!"
    ELSE "D: Every journey starts with a single step!"

get_stats(ts) ==
    LET total_tasks == Len(ts)
        completed_tasks == Cardinality({i \in DOMAIN ts : ts[i].completed})
    IN  IF total_tasks = 0 THEN NoTasksYetText
        ELSE [NoText EXCEPT !.kind = "stats", !.total = total_tasks,
                            !.completed = completed_tasks,
                            !.rate = RateTenths(completed_tasks, total_tasks),
                            !.message = Encouragement(completed_tasks, total_tasks)]

\* --------------------------------------------------------- store effects
NoOp == [op |-> "none", title |-> "", priority |-> "", task_id |-> 0]

\* TaskManager.__init__: a fresh instance on the same tasks_file
DoInit ==
    /\ LET r == _load_tasks(file)
       IN  /\ tasks' = r.tasks
           /\ phase' = IF r.raised THEN "raised" ELSE "ready"
    /\ last' = [NoOp EXCEPT !.op = "init"]
    /\ result' = NoText
    /\ UNCHANGED file

DoAdd(title, priority, now) ==
    /\ LET r == add_task(tasks, title, priority, now)
       IN  /\ tasks' = r.tasks
           /\ file' = r.file
           /\ result' = r.ret
    /\ last' = [NoOp EXCEPT !.op = "add", !.title = title, !.priority = priority]
    /\ UNCHANGED phase

\* variant: the list is sorted in place
DoList_SortInPlace ==
    /\ result' = list_tasks(tasks)
    /\ tasks' = sorted(tasks)
    /\ last' = [NoOp EXCEPT !.op = "list"]
    /\ UNCHANGED <<file, phase>>

DoList ==
    /\ result' = list_tasks(tasks)
    /\ last' = [NoOp EXCEPT !.op = "list"]
    /\ UNCHANGED <<tasks, file, phase>>

DoComplete(task_id) ==
    /\ LET r == complete_task(tasks, file, task_id)
       IN  /\ tasks' = r.tasks
           /\ file' = r.file
           /\ result' = r.ret
    /\ last' = [NoOp EXCEPT !.op = "complete", !.task_id = task_id]
    /\ UNCHANGED phase

DoStats ==
    /\ result' = get_stats(tasks)
    /\ last' = [NoOp EXCEPT !.op = "stats"]
    /\ UNCHANGED <<tasks, file, phase>>

\* ------------------------------------------- the store used as a library
NoCall == [name |-> "none", parses |-> TRUE, title |-> "", priority |-> "", task_id |-> 0]
NoResponse == [raised |-> FALSE, output |-> <<>>]
NoReply == [kind |-> "none", from |-> 0]

StoreInit ==
    /\ tasks = <<>>
    /\ file \in {Absent, Unreadable}
    /\ phase = "new"
    /\ last = NoOp
    /\ result = NoText

Init ==
    /\ StoreInit
    /\ pc = "none"
    /\ line = ""
    /\ user_input = ""
    /\ response = NoResponse
    /\ events = <<>>
    /\ fault = "none"
    /\ reply = NoReply

Construct ==
    /\ phase \in {"new", "ready"}
    /\ DoInit
    /\ UNCHANGED agentVars

AddTask(title, priority, now) ==
    /\ phase = "ready"
    /\ Len(tasks) < MaxTasks
    /\ DoAdd(title, priority, now)
    /\ UNCHANGED agentVars

ListTasks ==
    /\ phase = "ready"
    /\ DoList
    /\ UNCHANGED agentVars

CompleteTask(task_id) ==
    /\ phase = "ready"
    /\ DoComplete(task_id)
    /\ UNCHANGED agentVars

GetStats ==
    /\ phase = "ready"
    /\ DoStats
    /\ UNCHANGED agentVars

Next ==
    \/ Construct
    \/ \E title \in Titles, priority \in PriorityInputs, now \in Stamps :
           AddTask(title, priority, now)
    \/ ListTasks
    \/ \E task_id \in TaskIds : CompleteTask(task_id)
    \/ GetStats

vars == <<tasks, file, phase, last, result, pc, line, user_input, response, events, fault, reply>>

Spec == Init /\ [][Next]_vars

\* ------------------------------------- the store driven for its statistics
\* Longer collections of one kind of task: what get_stats reads is only the
\* number of tasks and the number of completed ones.
AddPlainTask(now) ==
    /\ phase = "ready"
    /\ Len(tasks) < MaxStatsTasks
    /\ DoAdd("Buy milk", "medium", now)
    /\ UNCHANGED agentVars

StatsNext ==
    \/ Construct
    \/ \E now \in Stamps : AddPlainTask(now)
    \/ \E task_id \in StatsTaskIds : CompleteTask(task_id)
    \/ GetStats

StatsSpec == Init /\ [][StatsNext]_vars

\* ------------------------------------------------------ the dispatcher
Missing == "<missing>"

\* A function call chosen by the collaborator: the name and the members of
\* the JSON arguments (Missing / -1: the member is not there; parses: the
\* arguments are well-formed JSON).
Call(name, title, priority, task_id) ==
    [name |-> name, parses |-> TRUE, title |-> title, priority |-> priority, task_id |-> task_id]

AddCalls ==
    {Call("add_task", t, p, -1) : t \in {"Buy milk", Missing}, p \in {"high", "HIGH", Missing}}

CompleteCalls == {Call("complete_task", Missing, Missing, n) : n \in {1, 2, 999}}

ToolCalls ==
    AddCalls \cup CompleteCalls \cup
    {Call("list_tasks", Missing, Missing, -1),
     Call("get_stats", Missing, Missing, -1),
     Call("delete_task", Missing, Missing, 1),
     [Call("list_tasks", Missing, Missing, -1) EXCEPT !.parses = FALSE],
     [Call("delete_task", Missing, Missing, 1) EXCEPT !.parses = FALSE]}

MessageItem == [type |-> "message", call |-> NoCall]
CallItem(c) == [type |-> "function_call", call |-> c]

\* What responses.create() can give in the first round trip: an exception,
\* or an output list of items.
Responses ==
    {[raised |-> TRUE, output |-> <<>>]} \cup
    {[raised |-> FALSE, output |-> o] :
        o \in {<<>>, <<MessageItem>>,
               <<MessageItem, CallItem(Call("list_tasks", Missing, Missing, -1))>>}
              \cup {<<CallItem(c)>> : c \in ToolCalls}
              \cup {<<CallItem(Call("complete_task", Missing, Missing, 1)),
                      CallItem(Call("complete_task", Missing, Missing, 2))>>}}

\* f"Unknown tool: {name}"
UnknownToolText(name) == [NoText EXCEPT !.kind = "unknown_tool", !.message = name]

Raised(ts, f) ==
    [raised |-> TRUE, last |-> NoOp, tasks |-> ts, file |-> f, ret |-> NoText]

Returned(op, r) ==
    [raised |-> FALSE, last |-> op, tasks |-> r.tasks, file |-> r.file, ret |-> r.ret]

\* execute_tool: json.loads of the arguments, then the method the name maps to
execute_tool(call, ts, f, now) ==
    IF ~call.parses THEN Raised(ts, f)
    ELSE CASE call.name = "add_task" ->
                IF call.title = Missing THEN Raised(ts, f)
                ELSE LET priority == IF call.priority = Missing THEN "medium" ELSE call.priority
                     IN  Returned([NoOp EXCEPT !.op = "add", !.title = call.title,
                                               !.priority = priority],
                                  add_task(ts, call.title, priority, now))
           [] call.name = "list_tasks" ->
                Returned([NoOp EXCEPT !.op = "list"],
                         [tasks |-> ts, file |-> f, ret |-> list_tasks(ts)])
           [] call.name = "complete_task" ->
                IF call.task_id = -1 THEN Raised(ts, f)
                ELSE Returned([NoOp EXCEPT !.op = "complete", !.task_id = call.task_id],
                              complete_task(ts, f, call.task_id))
           [] call.name = "get_stats" ->
                Returned([NoOp EXCEPT !.op = "stats"],
                         [tasks |-> ts, file |-> f, ret |-> get_stats(ts)])
           [] OTHER ->
                Returned(NoOp, [tasks |-> ts, file |-> f, ret |-> UnknownToolText(call.name)])

\* variant: any function call in the output is taken as the choice of a tool
WantsTool_AnyItem(resp) ==
    \E i \in DOMAIN resp.output : resp.output[i].type = "function_call"

\* chat: response.output and response.output[0].type == "function_call"
WantsTool(resp) ==
    resp.output # <<>> /\ resp.output[1].type = "function_call"

\* tool_call = response.output[0]
ToolCallOf(resp) == resp.output[1].call

\* variant: the exception leaves chat()
ChatExcept_Propagate == [pc |-> "crashed", reply |-> NoReply]

\* chat: except Exception as e: return f"Sorry, I encountered an error: {str(e)}"
ChatExcept == [pc |-> "prompt", reply |-> [kind |-> "apology", from |-> 0]]

\* variant: the exit words are compared as typed
IsExit_CaseSensitive(s) == s \in {"quit", "exit", "bye"}

\* main: the exit words, compared after lower()
IsExit(s) == Lower(s) \in {"quit", "exit", "bye"}

AgentInit ==
    /\ StoreInit
    /\ pc = "start"
    /\ line = ""
    /\ user_input = ""
    /\ response = NoResponse
    /\ events = <<>>
    /\ fault = "none"
    /\ reply = NoReply

\* main: agent = AITaskAgent(), which constructs the TaskManager
StartAgent ==
    /\ pc = "start"
    /\ DoInit
    /\ pc' = IF _load_tasks(file).raised THEN "crashed" ELSE "prompt"
    /\ UNCHANGED <<line, user_input, response, events, fault, reply>>

\* main: one turn of the loop up to the call of chat()
ReadInput(typed) ==
    /\ pc = "prompt"
    /\ line' = typed
    /\ LET s == Strip(typed)
       IN  IF IsExit(s)
           THEN /\ pc' = "done"
                /\ UNCHANGED <<user_input, response, events, fault, reply>>
           ELSE IF s = ""
           THEN UNCHANGED <<pc, user_input, response, events, fault, reply>>
           ELSE /\ pc' = "call1"
                /\ user_input' = s
                /\ response' = NoResponse
                /\ events' = <<>>
                /\ fault' = "none"
                /\ reply' = NoReply
    /\ UNCHANGED storeVars

\* chat: the first responses.create() and the branch on its output
FirstRoundTrip(resp) ==
    /\ pc = "call1"
    /\ (WantsTool(resp) /\ ToolCallOf(resp).name = "add_task") => Len(tasks) < MaxAgentTasks
    /\ events' = Append(events, "call1")
    /\ response' = resp
    /\ IF resp.raised
       THEN /\ fault' = "call1"
            /\ pc' = ChatExcept.pc
            /\ reply' = ChatExcept.reply
       ELSE IF WantsTool(resp)
       THEN /\ pc' = "tool"
            /\ UNCHANGED <<fault, reply>>
       ELSE /\ pc' = "prompt"
            /\ reply' = [kind |-> "text", from |-> 1]
            /\ UNCHANGED fault
    /\ UNCHANGED <<storeVars, line, user_input>>

\* chat: tool_result = self.execute_tool(tool_call)
ExecuteTool(now) ==
    /\ pc = "tool"
    /\ LET r == execute_tool(ToolCallOf(response), tasks, file, now)
       IN  /\ tasks' = r.tasks
           /\ file' = r.file
           /\ IF r.raised
              THEN /\ fault' = "tool"
                   /\ pc' = ChatExcept.pc
                   /\ reply' = ChatExcept.reply
                   /\ UNCHANGED <<last, result, events>>
              ELSE /\ pc' = "call2"
                   /\ last' = r.last
                   /\ result' = r.ret
                   /\ events' = IF r.last.op = "none" THEN events ELSE Append(events, "store")
                   /\ UNCHANGED <<fault, reply>>
    /\ UNCHANGED <<phase, line, user_input, response>>

\* variant: a failed second round trip takes back the task just added
SecondRoundTrip_Rollback(ok) ==
    /\ pc = "call2"
    /\ events' = Append(events, "call2")
    /\ IF ok
       THEN /\ pc' = "prompt"
            /\ reply' = [kind |-> "text", from |-> 2]
            /\ UNCHANGED <<fault, storeVars>>
       ELSE /\ fault' = "call2"
            /\ pc' = ChatExcept.pc
            /\ reply' = ChatExcept.reply
            /\ IF last.op = "add"
               THEN /\ tasks' = SubSeq(tasks, 1, Len(tasks) - 1)
                    /\ file' = _save_tasks(SubSeq(tasks, 1, Len(tasks) - 1))
                    /\ UNCHANGED <<phase, last, result>>
               ELSE UNCHANGED storeVars
    /\ UNCHANGED <<line, user_input, response>>

\* chat: the second responses.create(); its output_text is returned
SecondRoundTrip(ok) ==
    /\ pc = "call2"
    /\ events' = Append(events, "call2")
    /\ IF ok
       THEN /\ pc' = "prompt"
            /\ reply' = [kind |-> "text", from |-> 2]
            /\ UNCHANGED fault
       ELSE /\ fault' = "call2"
            /\ pc' = ChatExcept.pc
            /\ reply' = ChatExcept.reply
    /\ UNCHANGED <<storeVars, line, user_input, response>>

AgentNext ==
    \/ StartAgent
    \/ \E typed \in Inputs : ReadInput(typed)
    \/ \E resp \in Responses : FirstRoundTrip(resp)
    \/ \E now \in Stamps : ExecuteTool(now)
    \/ \E ok \in BOOLEAN : SecondRoundTrip(ok)

AgentSpec == AgentInit /\ [][AgentNext]_vars

\* ------------------------- add_task called directly and by the dispatcher
\* add_task(title): the parameter priority takes its default "medium"
add_task_default(ts, title, now) == add_task(ts, title, "medium", now)

AddInit ==
    /\ StoreInit
    /\ pc \in {"none", "start"}
    /\ line = ""
    /\ user_input = ""
    /\ response = NoResponse
    /\ events = <<>>
    /\ fault = "none"
    /\ reply = NoReply

DirectConstruct ==
    /\ pc = "none"
    /\ Construct

DirectAdd(title, priority, now) ==
    /\ pc = "none"
    /\ phase = "ready"
    /\ Len(tasks) < MaxAddTasks
    /\ DoAdd(title, priority, now)
    /\ UNCHANGED agentVars

DirectAddDefault(title, now) ==
    /\ pc = "none"
    /\ phase = "ready"
    /\ Len(tasks) < MaxAddTasks
    /\ LET r == add_task_default(tasks, title, now)
       IN  /\ tasks' = r.tasks
           /\ file' = r.file
           /\ result' = r.ret
    /\ last' = [NoOp EXCEPT !.op = "add", !.title = title, !.priority = Missing]
    /\ UNCHANGED phase
    /\ UNCHANGED agentVars

AddNext ==
    \/ DirectConstruct
    \/ \E title \in Titles, priority \in AddPriorities, now \in Stamps :
           DirectAdd(title, priority, now)
    \/ \E title \in Titles, now \in Stamps : DirectAddDefault(title, now)
    \/ AgentNext

AddSpec == AddInit /\ [][AddNext]_vars

\* ------------------------------------- the dispatcher on a failing disk
\* What a call of _save_tasks can do: write the file, raise in open(), or
\* raise in json.dump() after open() has truncated the file.
WriteOutcomes == {"ok", "open_fails", "dump_fails"}

FailedWrite(f, w) == IF w = "open_fails" THEN f ELSE Unreadable

\* execute_tool when the _save_tasks of add_task / complete_task ends as w:
\* the list is already changed when _save_tasks raises
execute_tool_io(call, ts, f, now, w) ==
    LET r == execute_tool(call, ts, f, now)
        saves == /\ ~r.raised
                 /\ \/ r.last.op = "add"
                    \/ r.last.op = "complete" /\ FirstWithId(ts, call.task_id) # 0
    IN  IF saves /\ w # "ok"
        THEN [raised |-> TRUE, last |-> r.last, tasks |-> r.tasks,
              file |-> FailedWrite(f, w), ret |-> NoText]
        ELSE r

\* chat: tool_result = self.execute_tool(tool_call), the write ending as w
ExecuteToolIO(now, w) ==
    /\ pc = "tool"
    /\ LET r == execute_tool_io(ToolCallOf(response), tasks, file, now, w)
       IN  /\ tasks' = r.tasks
           /\ file' = r.file
           /\ IF r.raised
              THEN /\ fault' = IF r.last.op = "none" THEN "tool" ELSE "write"
                   /\ pc' = ChatExcept.pc
                   /\ reply' = ChatExcept.reply
                   /\ last' = IF r.last.op = "none" THEN last ELSE r.last
                   /\ events' = IF r.last.op = "none" THEN events ELSE Append(events, "store")
                   /\ UNCHANGED result
              ELSE /\ pc' = "call2"
                   /\ last' = r.last
                   /\ result' = r.ret
                   /\ events' = IF r.last.op = "none" THEN events ELSE Append(events, "store")
                   /\ UNCHANGED <<fault, reply>>
    /\ UNCHANGED <<phase, line, user_input, response>>

FaultNext ==
    \/ StartAgent
    \/ \E typed \in Inputs : ReadInput(typed)
    \/ \E resp \in Responses : FirstRoundTrip(resp)
    \/ \E now \in Stamps, w \in WriteOutcomes : ExecuteToolIO(now, w)
    \/ \E ok \in BOOLEAN : SecondRoundTrip(ok)

FaultSpec == AgentInit /\ [][FaultNext]_vars

\* ================================================================ claims

\* C1: starting from no prior storage, after any sequence of operations and
\* after a reload in a fresh instance, the k-th task in insertion order has
\* id k (so N adds give exactly the ids 1..N, all distinct).
C1_IdsArePositions ==
    phase = "ready" => \A k \in DOMAIN tasks : tasks[k].id = k

C1_Witness ==
    /\ phase = "ready"
    /\ last.op = "init"
    /\ Len(tasks) = 3
    /\ tasks[1].title # tasks[2].title
    /\ tasks[2].priority # tasks[3].priority

\* C2: at rest between two store operations the file holds exactly the
\* in-memory collection (no file counting as the empty collection): what a
\* fresh instance would load is the same list, field by field.
C2_FileIsSnapshot ==
    phase = "ready" =>
        LET r == _load_tasks(file)
        IN  /\ ~r.raised
            /\ Len(r.tasks) = Len(tasks)
            /\ \A k \in DOMAIN tasks :
                  /\ r.tasks[k].id = tasks[k].id
                  /\ r.tasks[k].title = tasks[k].title
                  /\ r.tasks[k].priority = tasks[k].priority
                  /\ r.tasks[k].completed = tasks[k].completed

C2_Witness ==
    /\ phase = "ready"
    /\ last.op = "complete"
    /\ result.kind = "completed"
    /\ Len(tasks) >= 2
    /\ \E k \in DOMAIN tasks : ~tasks[k].completed

\* C3: complete(task_id) on an id present in the store sets that task's
\* completed flag, reports success, and changes nothing else: the length,
\* the order, every other task and the id, title, priority and created_at of
\* the task itself stay the same; a second call with the same id reports
\* success again and leaves the collection as the first call left it.
C3_CompleteExisting ==
    [][ (last'.op = "complete" /\ FirstWithId(tasks, last'.task_id) # 0) =>
          LET i == FirstWithId(tasks, last'.task_id)
          IN  /\ result'.kind = "completed"
              /\ result'.title = tasks[i].title
              /\ Len(tasks') = Len(tasks)
              /\ tasks'[i].completed
              /\ tasks'[i].id = tasks[i].id
              /\ tasks'[i].title = tasks[i].title
              /\ tasks'[i].priority = tasks[i].priority
              /\ tasks'[i].created_at = tasks[i].created_at
              /\ \A k \in DOMAIN tasks : k # i => tasks'[k] = tasks[k]
              /\ (last.op = "complete" /\ last.task_id = last'.task_id) => tasks' = tasks
      ]_vars

C3_Witness ==
    /\ last.op = "complete"
    /\ result.kind = "completed"
    /\ Len(tasks) = 3
    /\ tasks[2].completed
    /\ ~tasks[1].completed
    /\ ~tasks[3].completed
    /\ last.task_id = 2

\* C4: complete(task_id) on an id no task has changes neither the
\* collection nor the file, raises nothing, and returns the not-found text
\* carrying the requested id.
C4_CompleteMissing ==
    [][ (last'.op = "complete" /\ FirstWithId(tasks, last'.task_id) = 0) =>
          /\ tasks' = tasks
          /\ file' = file
          /\ phase' = "ready"
          /\ result'.kind = "not_found"
          /\ result'.id = last'.task_id
      ]_vars

C4_Witness ==
    /\ last.op = "complete"
    /\ last.task_id = 999
    /\ result.kind = "not_found"
    /\ result.id = 999
    /\ Len(tasks) = 1
    /\ tasks[1].id = 1
    /\ ~tasks[1].completed

\* C5: a task is created incomplete, becomes completed only by a complete
\* operation naming its id, and once completed stays completed in every
\* later state, reloads included.
C5_CompletedIsOneWay ==
    [][ /\ \A k \in DOMAIN tasks' : k \notin DOMAIN tasks => ~tasks'[k].completed
        /\ \A k \in DOMAIN tasks :
              /\ k \in DOMAIN tasks'
              /\ tasks[k].completed => tasks'[k].completed
              /\ (~tasks[k].completed /\ tasks'[k].completed) =>
                    (last'.op = "complete" /\ last'.task_id = tasks[k].id)
      ]_vars

C5_Witness ==
    /\ last.op = "init"
    /\ Len(tasks) = 2
    /\ tasks[1].completed
    /\ ~tasks[2].completed

\* C6: list() on a non-empty store returns one line per task, each with the
\* task's id and title, incomplete tasks before completed ones, within the
\* same completion status high before low before medium, equal keys in
\* insertion order; on an empty store it returns the no-tasks message.
PriorityOrder(p) == CASE p = "high" -> 1 [] p = "low" -> 2 [] p = "medium" -> 3

TaskOfLine(l) == tasks[CHOOSE k \in DOMAIN tasks : tasks[k].id = l.id]

C6_ListIsSorted ==
    last.op = "list" =>
        IF tasks = <<>> THEN result = NoTasksFoundText
        ELSE /\ result.kind = "list"
             /\ Len(result.lines) = Len(tasks)
             /\ \A k \in DOMAIN tasks :
                   Cardinality({i \in DOMAIN result.lines :
                                   /\ result.lines[i].id = tasks[k].id
                                   /\ result.lines[i].title = tasks[k].title}) = 1
             /\ \A i, j \in DOMAIN result.lines :
                   i < j =>
                     LET a == TaskOfLine(result.lines[i])
                         b == TaskOfLine(result.lines[j])
                     IN  /\ a.completed => b.completed
                         /\ (a.completed = b.completed) =>
                               PriorityOrder(a.priority) <= PriorityOrder(b.priority)
                         /\ (a.completed = b.completed /\ a.priority = b.priority) =>
                               a.id < b.id

C6_Witness ==
    /\ last.op = "list"
    /\ result.kind = "list"
    /\ Len(tasks) = 3
    /\ tasks[1].completed /\ tasks[1].priority = "high"
    /\ ~tasks[2].completed /\ tasks[2].priority = "medium"
    /\ ~tasks[3].completed /\ tasks[3].priority = "low"
    /\ result.lines[1].id = 3
    /\ result.lines[2].id = 2
    /\ result.lines[3].id = 1

\* C7: stats() on an empty store returns the zero-task message; otherwise it
\* reports total and completed and the message is A iff completed = total,
\* B iff 75 <= rate < 100, C iff 50 <= rate < 75, D iff rate < 50, with
\* rate = completed / total * 100; 2 of 4 gives 50.0 and C, 3 of 4 gives B.
C7_StatsLadder ==
    last.op = "stats" =>
        LET n == Len(tasks)
            c == Cardinality({k \in DOMAIN tasks : tasks[k].completed})
            m == result.message
        IN  IF n = 0 THEN result = NoTasksYetText
            ELSE /\ result.kind = "stats"
                 /\ result.total = n
                 /\ result.completed = c
                 /\ (m = "A: Perfect score!") <=> (c = n)
                 /\ (m = "B: Great progress!") <=> (75 * n <= 100 * c /\ c < n)
                 /\ (m = "C: Halfway there!") <=> (50 * n <= 100 * c /\ 100 * c < 75 * n)
                 /\ (m = "D: Every journey starts with a single step!") <=> (100 * c < 50 * n)
                 /\ (n = 4 /\ c = 2) => (result.rate = 500 /\ m = "C: Halfway there!")
                 /\ (n = 4 /\ c = 3) => m = "B: Great progress!"

C7_Witness ==
    /\ last.op = "stats"
    /\ result.kind = "stats"
    /\ result.total = 4
    /\ result.completed = 2
    /\ result.rate = 500

\* C10 as stated: whenever reading the file fails at construction, whatever
\* the failure, the store starts empty and construction reports no error.
C10_AnyReadFailureGivesEmpty ==
    (last.op = "init" /\ file.kind # "json") => (phase = "ready" /\ tasks = <<>>)

\* C10 amended: when no prior file exists the store starts empty and
\* construction reports no error; a file that exists but cannot be read or
\* parsed makes construction raise.
C10_MissingFileGivesEmpty ==
    last.op = "init" =>
        /\ file.kind = "absent" => (phase = "ready" /\ tasks = <<>>)
        /\ file.kind = "unreadable" => phase = "raised"

C10_Witness ==
    /\ last.op = "init"
    /\ file.kind = "absent"
    /\ phase = "ready"
    /\ tasks = <<>>

\* C8: for each utterance chat() makes the first external call, then, only
\* if the first output item of that call is a function call, at most one
\* store operation (exactly one when the name is one of the four
\* capabilities and nothing raises), then the second external call, whose
\* text is the reply; with no function call chosen there is no store
\* operation and no second call and the text of the first call is the reply;
\* nothing is repeated, and the next utterance is read only once chat() has
\* returned.
Capabilities == {"add_task", "list_tasks", "complete_task", "get_stats"}

Count(e) == Cardinality({i \in DOMAIN events : events[i] = e})

FirstItemIsCall == response.output # <<>> /\ response.output[1].type = "function_call"

C8_AtRest ==
    /\ Count("call1") <= 1 /\ Count("store") <= 1 /\ Count("call2") <= 1
    /\ events # <<>> => events[1] = "call1"
    /\ \A i \in DOMAIN events :
          /\ events[i] = "store" => (i = 2 /\ FirstItemIsCall)
          /\ events[i] = "call2" => (i = Len(events) /\ i >= 2 /\ FirstItemIsCall)
    /\ (pc = "prompt" /\ events # <<>> /\ fault = "none") =>
          IF FirstItemIsCall
          THEN /\ reply = [kind |-> "text", from |-> 2]
               /\ events[Len(events)] = "call2"
               /\ response.output[1].call.name \in Capabilities =>
                     events = <<"call1", "store", "call2">>
          ELSE /\ reply = [kind |-> "text", from |-> 1]
               /\ events = <<"call1">>

C8_OneOperationPerUtterance ==
    [][ /\ C8_AtRest'
        /\ pc' = "call1" => pc = "prompt"
        /\ user_input' # user_input => pc = "prompt"
      ]_vars

C8_Witness ==
    /\ pc = "prompt"
    /\ events = <<"call1", "store", "call2">>
    /\ reply = [kind |-> "text", from |-> 2]
    /\ last.op = "complete"
    /\ result.kind = "completed"

\* C9: a failure raised by the collaborator in the first or in the second
\* round trip is caught inside chat(), the reply is the apology text, the
\* process does not crash and main() is back at its prompt.
C9_CollaboratorFailureIsCaught ==
    [][ (fault = "none" /\ fault' \in {"call1", "call2"}) =>
          /\ reply'.kind = "apology"
          /\ pc' = "prompt"
      ]_vars

C9_Witness ==
    /\ fault = "call2"
    /\ reply.kind = "apology"
    /\ pc = "prompt"
    /\ events = <<"call1", "store", "call2">>
    /\ Len(tasks) = 1

\* C11: add(title, priority) appends exactly one task at the end, with the
\* given title, completed = false and the priority lowercased, whatever the
\* priority text is; with no priority given, directly or by the dispatcher
\* from arguments without one, the stored priority is "medium"; the
\* confirmation text carries the title and the priority as supplied.
LowercaseOf(p) ==
    CASE p = "high" -> "high" [] p = "HIGH" -> "high" [] p = "low" -> "low"
      [] p = "medium" -> "medium" [] p = "Urgent" -> "urgent"

C11_AddStep ==
    \/ pc = "none" /\ last'.op = "add"
    \/ pc = "tool" /\ pc' = "call2" /\ last'.op = "add"

C11_AddAppendsOne ==
    [][ C11_AddStep =>
          LET title == IF pc = "none" THEN last'.title ELSE response.output[1].call.title
              supplied == IF pc = "none" THEN last'.priority
                          ELSE response.output[1].call.priority
              new == tasks'[Len(tasks')]
          IN  /\ Len(tasks') = Len(tasks) + 1
              /\ SubSeq(tasks', 1, Len(tasks)) = tasks
              /\ new.title = title
              /\ ~new.completed
              /\ new.priority = IF supplied = Missing THEN "medium" ELSE LowercaseOf(supplied)
              /\ result'.kind = "added"
              /\ result'.title = title
              /\ result'.priority = IF supplied = Missing THEN "medium" ELSE supplied
      ]_vars

C11_Witness ==
    /\ pc = "none"
    /\ last.op = "add"
    /\ last.priority = "Urgent"
    /\ Len(tasks) = 2
    /\ tasks[1].priority = "medium"
    /\ tasks[2].priority = "urgent"
    /\ result.kind = "added"
    /\ result.priority = "Urgent"

\* C12: apart from the completed flag the collection is append-only: no
\* operation removes a task, reorders the collection or changes the id,
\* title, priority or created_at of an existing task; the number of tasks
\* never decreases and grows only by add, by exactly one; list and stats
\* change neither the collection nor the file.
C12_AppendOnly ==
    [][ /\ Len(tasks') >= Len(tasks)
        /\ \A k \in DOMAIN tasks :
              /\ tasks'[k].id = tasks[k].id
              /\ tasks'[k].title = tasks[k].title
              /\ tasks'[k].priority = tasks[k].priority
              /\ tasks'[k].created_at = tasks[k].created_at
        /\ Len(tasks') # Len(tasks) =>
              (last'.op = "add" /\ Len(tasks') = Len(tasks) + 1)
        /\ last'.op \in {"list", "stats"} => (tasks' = tasks /\ file' = file)
      ]_vars

C12_Witness ==
    /\ last.op = "list"
    /\ result.kind = "list"
    /\ Len(tasks) = 3
    /\ tasks[1].priority = "medium"
    /\ tasks[2].priority = "high"
    /\ tasks[2].completed
    /\ ~tasks[3].completed
    /\ tasks[1].title # tasks[3].title

\* C13: when the name chosen by the collaborator is none of add_task,
\* list_tasks, complete_task, get_stats, execute_tool invokes no store
\* operation, leaves the collection and the file unchanged, and returns the
\* unknown-operation text as the result instead of raising.
C13_UnknownToolIsDiagnosed ==
    [][ (pc = "tool" /\ response.output[1].call.name \notin Capabilities) =>
          /\ tasks' = tasks
          /\ file' = file
          /\ events' = events
          /\ fault' = "none"
          /\ pc' = "call2"
          /\ result'.kind = "unknown_tool"
          /\ result'.message = response.output[1].call.name
      ]_vars

\* C14 as stated: an input equal, case-insensitively, to quit, exit or bye
\* ends the loop with no external call and no store operation; an empty
\* input causes neither and the loop prompts again; every other input is
\* dispatched exactly once and the loop then prompts again.
ClassAsTyped(t) ==
    CASE t \in {"quit", "Exit"} -> "exit"
      [] t = ""                 -> "empty"
      [] OTHER                  -> "other"

\* the class of an input once leading and trailing white space is removed
ClassStripped(t) ==
    CASE t \in {"quit", "Exit", " BYE "} -> "exit"
      [] t \in {"", "  "}                -> "empty"
      [] OTHER                           -> "other"

C14_ReadStep(class) ==
    /\ class = "exit" => (pc' = "done" /\ events' = events /\ storeVars' = storeVars)
    /\ class = "empty" => (pc' = "prompt" /\ events' = events /\ storeVars' = storeVars)
    /\ class = "other" => (pc' = "call1" /\ events' = <<>> /\ storeVars' = storeVars)

C14_ChatStep ==
    /\ pc' \in {"tool", "call2", "prompt"}
    /\ pc' = "prompt" => Cardinality({i \in DOMAIN events' : events'[i] = "call1"}) = 1

C14_LoopAsTyped ==
    [][ /\ pc = "prompt" => C14_ReadStep(ClassAsTyped(line'))
        /\ pc \in {"call1", "tool", "call2"} => C14_ChatStep
      ]_vars

\* C14 amended: the input is classified after its leading and trailing
\* white space is stripped: one that then equals quit, exit or bye,
\* case-insensitively, ends the loop with no external call and no store
\* operation; one that is then empty causes neither and the loop prompts
\* again; every other input is dispatched exactly once and the loop then
\* prompts again.
C14_LoopAfterStrip ==
    [][ /\ pc = "prompt" => C14_ReadStep(ClassStripped(line'))
        /\ pc \in {"call1", "tool", "call2"} => C14_ChatStep
      ]_vars

C14_Witness ==
    /\ pc = "done"
    /\ line = "Exit"
    /\ events = <<"call1", "store", "call2">>
    /\ Len(tasks) = 1

\* C15: a failure to write the file during add or complete is surfaced as a
\* fatal I/O error and never absorbed: the process does not go on accepting
\* utterances while the in-memory collection holds a change (an appended
\* task, a completed flag) that the file does not hold.
C15_WriteFailureIsFatal ==
    /\ fault = "write" => pc \notin {"prompt", "call1", "tool", "call2"}
    /\ pc = "prompt" =>
          LET r == _load_tasks(file)
          IN  ~r.raised /\ r.tasks = tasks

\* C16: the store operation chosen in round 1 is executed and persisted
\* before round 2 is issued and is not rolled back when round 2 fails: the
\* reply is then the apology text while the added task or the completed flag
\* stays in the in-memory collection and in the file; a failure of round 1
\* leaves the store as it was.
C16_InFile(f, k) == f.kind = "json" /\ k \in DOMAIN f.doc

C16_NoRollback ==
    [][ /\ (pc = "tool" /\ pc' = "call2" /\ last'.op \in {"add", "complete"}) =>
              LET r == _load_tasks(file')
              IN  ~r.raised /\ r.tasks = tasks'
        /\ pc = "call2" => (tasks' = tasks /\ file' = file)
        /\ (pc = "call2" /\ fault' = "call2") =>
              /\ reply'.kind = "apology"
              /\ last.op = "add" =>
                    LET n == Len(tasks')
                    IN  /\ n > 0
                        /\ tasks'[n].title = last.title
                        /\ C16_InFile(file', n)
                        /\ _load_tasks(file').tasks[n] = tasks'[n]
              /\ (last.op = "complete" /\ result.kind = "completed") =>
                    LET i == FirstWithId(tasks', last.task_id)
                    IN  /\ i # 0
                        /\ tasks'[i].completed
                        /\ C16_InFile(file', i)
                        /\ _load_tasks(file').tasks[i].completed
        /\ (pc = "call1" /\ fault' = "call1") =>
              /\ reply'.kind = "apology"
              /\ events' = <<"call1">>
              /\ storeVars' = storeVars
      ]_vars

C16_Witness ==
    /\ fault = "call2"
    /\ reply.kind = "apology"
    /\ pc = "prompt"
    /\ last.op = "add"
    /\ Len(tasks) = 2
    /\ tasks[1].completed
    /\ file.kind = "json"
    /\ Len(file.doc) = 2

====
